---- MODULE Spec2Model ----
(***************************************************************************)
(* Model of schema.py: the BookRepo query builder, the repository's        *)
(* get_books and the books resolver, run against a store of authors and    *)
(* books that evaluates the built statement with SQL semantics.            *)
(*                                                                         *)
(* A Python value is a tagged record, so that Python's == between values   *)
(* of different types (a str against a tuple) is modelled, not assumed.    *)
(* A Python str is a sequence of one-character strings.  The SQL text is   *)
(* the sequence of its whitespace-separated words.                         *)
(***************************************************************************)
EXTENDS Integers, Sequences, FiniteSets, TLC

\* ------------------------------------------------------------------ bounds
MaxAuthorId == 2     \* the author ids of a request are 1..MaxAuthorId
MaxIdsLen == 2       \* longest author_ids list of a request
MaxLimit == 2        \* limits of a request are -1..MaxLimit

\* ----------------------------------------------------------- Python values
None == [t |-> "none"]
PyStr(s) == [t |-> "str", v |-> s]
PyList(l) == [t |-> "list", v |-> l]
PyInt(n) == [t |-> "int", v |-> n]
PyTuple(xs) == [t |-> "tuple", v |-> xs]

\* Python's ==: values of different types are unequal, None equals None.
PyEq(x, y) == /\ x.t = y.t
              /\ (x.t = "none" \/ x.v = y.v)

\* Python's "x in (a, b, ...)" over a tuple of values.
PyIn(x, tup) == \E i \in 1..Len(tup.v) : PyEq(x, tup.v[i])

\* ---------------------------------------------------------------- SQL text
_select_query ==
  << "select", "b.title", "as", "book_title,", "a.name", "as", "author_name",
     "from", "books", "b", "inner", "join", "public.authors", "a", "on",
     "a.id", "=", "b.author_id" >>

\* line 55, 59 and 66: the fragments the builder appends
AuthorFilter == << "a.id", "=", "ANY(:author_ids)" >>
SearchFilter == << "b.title", "ILIKE", "'%'", "||", ":search", "||", "'%'" >>
LimitClause == << "limit", ":limit" >>

RECURSIVE join(_, _)
\* sep.join(parts) on word sequences
join(sep, parts) ==
  IF parts = << >> THEN << >>
  ELSE IF Len(parts) = 1 THEN parts[1]
  ELSE parts[1] \o sep \o join(sep, Tail(parts))

\* dict item assignment: values[k] = v
SetItem(values, k, v) == (k :> v) @@ values
EmptyDict == [k \in {} |-> None]

\* ----------------------------------------------------------- the builder
_build_filters_author(author_ids) ==
  IF ~PyIn(author_ids, PyTuple(<< None, PyList(<< >>) >>))
  THEN [filters |-> << AuthorFilter >>,
        values |-> SetItem(EmptyDict, "author_ids", author_ids)]
  ELSE [filters |-> << >>, values |-> EmptyDict]

\* mutant: the title condition is appended, search is bound only when given
_build_filters_search_unbound(acc, search) ==
  [filters |-> Append(acc.filters, SearchFilter),
   values |-> IF search.t = "none" THEN acc.values
              ELSE SetItem(acc.values, "search", search)]

_build_filters_search(acc, search) ==
  IF ~PyEq(search, PyTuple(<< None, PyStr(<< >>) >>))
  THEN [filters |-> Append(acc.filters, SearchFilter),
        values |-> SetItem(acc.values, "search", search)]
  ELSE acc

\* mutant: the conditions are joined with "or"
_build_where_or(acc) ==
  IF acc.filters # << >>
  THEN _select_query \o << "where" >> \o join(<< "or" >>, acc.filters)
  ELSE _select_query

_build_where(acc) ==
  IF acc.filters # << >>
  THEN _select_query \o << "where" >> \o join(<< "and" >>, acc.filters)
  ELSE _select_query

\* mutant: "if limit:" instead of "if limit is not None:"
_build_limit_truthy(query, values, limit) ==
  IF limit.t # "none" /\ limit.v # 0
  THEN [query |-> query \o LimitClause, values |-> SetItem(values, "limit", limit)]
  ELSE [query |-> query, values |-> values]

\* mutant: the limit is formatted into the text instead of being bound
_build_limit_inline(query, values, limit) ==
  IF limit.t # "none"
  THEN [query |-> query \o << "limit", ToString(limit.v) >>, values |-> values]
  ELSE [query |-> query, values |-> values]

_build_limit(query, values, limit) ==
  IF limit.t # "none"
  THEN [query |-> query \o LimitClause, values |-> SetItem(values, "limit", limit)]
  ELSE [query |-> query, values |-> values]

_build_sql_query_and_values(author_ids, search, limit) ==
  LET acc == _build_filters_search(_build_filters_author(author_ids), search)
  IN  _build_limit(_build_where(acc), acc.values, limit)

\* ------------------------------------------------------------- the store
\* Titles are Python strs; author names are not inspected by any statement
\* and stay atoms.
GoBasics == << "G", "o", " ", "B", "a", "s", "i", "c", "s" >>
RustDeepDive == << "R", "u", "s", "t", " ", "D", "e", "e", "p", " ", "D", "i", "v", "e" >>
GoAdvanced == << "G", "o", " ", "A", "d", "v", "a", "n", "c", "e", "d" >>

BookRow(title, author_id) == [title |-> title, author_id |-> author_id]

\* authors: id -> name (id is the key of the authors table); books: the rows
\* of the books table.
FixtureStore ==
  [authors |-> (1 :> "Alice") @@ (2 :> "Bob"),
   books |-> << BookRow(GoBasics, 1), BookRow(RustDeepDive, 2), BookRow(GoAdvanced, 1) >>]
OrphanStore ==
  [authors |-> (1 :> "Alice"),
   books |-> << BookRow(GoBasics, 1), BookRow(RustDeepDive, 2) >>]
RepeatStore ==
  [authors |-> (1 :> "Alice") @@ (2 :> "Bob"),
   books |-> << BookRow(GoBasics, 1), BookRow(GoBasics, 1), BookRow(RustDeepDive, 2) >>]
EmptyStore ==
  [authors |-> (1 :> "Alice"), books |-> << >>]
Stores == { FixtureStore, OrphanStore, RepeatStore, EmptyStore }

\* ------------------------------------------------- SQL evaluation (store)
UpperCase == << "A", "B", "C", "D", "E", "F", "G", "H", "I", "J", "K", "L", "M",
                "N", "O", "P", "Q", "R", "S", "T", "U", "V", "W", "X", "Y", "Z" >>
LowerCase == << "a", "b", "c", "d", "e", "f", "g", "h", "i", "j", "k", "l", "m",
                "n", "o", "p", "q", "r", "s", "t", "u", "v", "w", "x", "y", "z" >>
Lower(c) ==
  IF \E i \in 1..26 : UpperCase[i] = c
  THEN LowerCase[CHOOSE i \in 1..26 : UpperCase[i] = c]
  ELSE c
LowerStr(s) == [i \in 1..Len(s) |-> Lower(s[i])]

RECURSIVE Like(_, _)
\* text LIKE pat: % matches any run of characters, _ any one character
Like(text, pat) ==
  IF pat = << >> THEN text = << >>
  ELSE IF pat[1] = "%"
       THEN Like(text, Tail(pat)) \/ (text # << >> /\ Like(Tail(text), pat))
  ELSE IF text = << >> THEN FALSE
  ELSE (pat[1] = "_" \/ pat[1] = text[1]) /\ Like(Tail(text), Tail(pat))

\* title ILIKE '%' || :search || '%' ; NULL when the bound value is NULL
ILike(title, search) ==
  IF search.t = "none" THEN "null"
  ELSE IF Like(LowerStr(title), LowerStr(<< "%" >> \o search.v \o << "%" >>))
       THEN "true" ELSE "false"

\* a.id = ANY(:author_ids)
EqAny(id, author_ids) ==
  IF author_ids.t = "none" THEN "null"
  ELSE IF \E i \in 1..Len(author_ids.v) : author_ids.v[i] = id
       THEN "true" ELSE "false"

\* SQL's three-valued AND
And3(a, b) ==
  IF a = "false" \/ b = "false" THEN "false"
  ELSE IF a = "null" \/ b = "null" THEN "null"
  ELSE "true"

\* the named placeholder a word of the statement stands for, "" for none
PlaceholderOf(word) ==
  CASE word = "ANY(:author_ids)" -> "author_ids"
    [] word = ":search" -> "search"
    [] word = ":limit" -> "limit"
    [] OTHER -> ""
Placeholders(query) ==
  { PlaceholderOf(query[i]) : i \in 1..Len(query) } \ { "" }

RECURSIVE Split(_, _)
\* the runs of words between occurrences of sep
Split(words, sep) ==
  IF \A i \in 1..Len(words) : words[i] # sep THEN << words >>
  ELSE LET k == CHOOSE i \in 1..Len(words) :
                   words[i] = sep /\ \A j \in 1..(i - 1) : words[j] # sep
       IN  << SubSeq(words, 1, k - 1) >> \o Split(SubSeq(words, k + 1, Len(words)), sep)

HasPrefix(words, prefix) ==
  Len(words) >= Len(prefix) /\ SubSeq(words, 1, Len(prefix)) = prefix
HasSuffix(words, suffix) ==
  Len(words) >= Len(suffix)
  /\ SubSeq(words, Len(words) - Len(suffix) + 1, Len(words)) = suffix

\* The statement as the store reads it: the base join, then an optional
\* WHERE with conditions joined by AND, then an optional LIMIT.
Parse(query) ==
  IF ~HasPrefix(query, _select_query) THEN [ok |-> FALSE]
  ELSE LET rest == SubSeq(query, Len(_select_query) + 1, Len(query))
           lim == HasSuffix(rest, LimitClause)
           body == IF lim THEN SubSeq(rest, 1, Len(rest) - Len(LimitClause)) ELSE rest
           conds == IF body = << >> THEN << >> ELSE Split(Tail(body), "and")
       IN  IF /\ (body = << >> \/ body[1] = "where")
              /\ (body # << >> => conds # << >>)
              /\ \A i \in 1..Len(conds) : conds[i] \in { AuthorFilter, SearchFilter }
           THEN [ok |-> TRUE, conds |-> conds, limit |-> lim]
           ELSE [ok |-> FALSE]

\* one condition of the WHERE clause on one joined row
EvalCond(cond, row, values) ==
  IF cond = AuthorFilter THEN EqAny(row.author_id, values["author_ids"])
  ELSE ILike(row.book_title, values["search"])

RECURSIVE EvalWhere(_, _, _)
EvalWhere(conds, row, values) ==
  IF conds = << >> THEN "true"
  ELSE And3(EvalCond(conds[1], row, values), EvalWhere(Tail(conds), row, values))

\* books b inner join public.authors a on a.id = b.author_id, in table order
RECURSIVE InnerJoin(_, _)
InnerJoin(books, authors) ==
  IF books = << >> THEN << >>
  ELSE LET b == books[1]
       IN  (IF b.author_id \in DOMAIN authors
            THEN << [book_title |-> b.title, author_name |-> authors[b.author_id],
                     author_id |-> b.author_id] >>
            ELSE << >>)
           \o InnerJoin(Tail(books), authors)

\* the subsequence of the rows the WHERE clause keeps (those it finds true)
RECURSIVE Matching(_, _, _)
Matching(rows, conds, values) ==
  IF rows = << >> THEN << >>
  ELSE (IF EvalWhere(conds, rows[1], values) = "true" THEN << rows[1] >> ELSE << >>)
       \o Matching(Tail(rows), conds, values)

\* the record fetch_all hands back: the two selected columns
Record(row) == [book_title |-> row.book_title, author_name |-> row.author_name]

Perms(n) == { f \in [1..n -> 1..n] : \A i, j \in 1..n : f[i] = f[j] => i = j }
Min(a, b) == IF a < b THEN a ELSE b

\* What the store answers to the statement with its bindings: an error, or the
\* row sequences it may return.  Without ORDER BY any order of the matching
\* rows is possible, and LIMIT n keeps the first n of that order.
Execute(query, values, st) ==
  LET p == Parse(query)
  IN  IF ~p.ok THEN [ok |-> FALSE, error |-> "syntax"]
      ELSE IF Placeholders(query) # DOMAIN values THEN [ok |-> FALSE, error |-> "bind"]
      ELSE IF p.limit /\ values["limit"].t = "int" /\ values["limit"].v < 0
           THEN [ok |-> FALSE, error |-> "negative_limit"]
      ELSE LET rows == Matching(InnerJoin(st.books, st.authors), p.conds, values)
               n == Len(rows)
               k == IF p.limit /\ values["limit"].t = "int"
                    THEN Min(n, values["limit"].v) ELSE n
           IN  [ok |-> TRUE,
                rows |-> { [i \in 1..k |-> Record(rows[f[i]])] : f \in Perms(n) }]

\* --------------------------------------------------------- the repository
Author(name) == [name |-> name]
Book(title, author) == [title |-> title, author |-> author]

_map_record_to_book(record) ==
  LET author == Author(record.author_name)
  IN  Book(record.book_title, author)

RECURSIVE MapRecords_distinct(_)
\* mutant: a record equal to an earlier one gives no Book
MapRecords_distinct(book_records) ==
  IF book_records = << >> THEN << >>
  ELSE LET n == Len(book_records)
           front == SubSeq(book_records, 1, n - 1)
       IN  IF \E i \in 1..(n - 1) : book_records[i] = book_records[n]
           THEN MapRecords_distinct(front)
           ELSE Append(MapRecords_distinct(front), _map_record_to_book(book_records[n]))

\* [self._map_record_to_book(r) for r in book_records]
MapRecords(book_records) ==
  [i \in 1..Len(book_records) |-> _map_record_to_book(book_records[i])]

\* get_books after the await: what it hands to its caller when fetch_all
\* returned the records, and when fetch_all raised.
get_books_returns(records) ==
  [pc |-> "done", returned |-> TRUE, result |-> MapRecords(records), raised |-> "none"]
\* mutant: the error is caught and an empty list returned
get_books_swallows(err) ==
  [pc |-> "done", returned |-> TRUE, result |-> << >>, raised |-> "none"]
get_books_raises(err) ==
  [pc |-> "failed", returned |-> FALSE, result |-> << >>, raised |-> err]

\* ------------------------------------------------------------- the inputs
RECURSIVE SeqsUpTo(_, _)
SeqsUpTo(S, n) ==
  IF n = 0 THEN { << >> }
  ELSE LET shorter == SeqsUpTo(S, n - 1)
       IN  shorter \cup { Append(s, x) : s \in shorter, x \in S }

AuthorIdsInputs == { None } \cup { PyList(l) : l \in SeqsUpTo(1..MaxAuthorId, MaxIdsLen) }
SearchTerms == { << >>, << "G", "o" >>, << "r", "U", "S", "T" >>, << "_", "o", " " >>,
                 << "x" >> }
SearchInputs == { None } \cup { PyStr(s) : s \in SearchTerms }
LimitInputs == { None } \cup { PyInt(n) : n \in (-1)..MaxLimit }

\* ---------------------------------------------------------------- state
VARIABLES
  store,        \* the authors and books tables behind the Database handle
  pc,           \* the request: "idle", "awaiting" (in fetch_all), "done", "failed"
  author_ids, search, limit,   \* the arguments of the request
  query, values,               \* what the builder returned
  fetch_calls,  \* fetch_all calls issued for the request
  fetch_error,  \* the error fetch_all raised, "none" when it did not
  book_records, \* the records fetch_all returned
  returned,     \* a list of Books was returned to the caller
  result,       \* that list
  raised        \* the error propagated to the caller, "none" when none

vars == << store, pc, author_ids, search, limit, query, values, fetch_calls,
           fetch_error, book_records, returned, result, raised >>

Init ==
  /\ store \in Stores
  /\ pc = "idle"
  /\ author_ids = None /\ search = None /\ limit = None
  /\ query = << >> /\ values = EmptyDict
  /\ fetch_calls = 0
  /\ fetch_error = "none"
  /\ book_records = << >>
  /\ returned = FALSE
  /\ result = << >>
  /\ raised = "none"

\* Query.books -> BookRepo.get_books up to the await: the statement is built
\* and handed to fetch_all.  A request shares nothing with another one, so a
\* behaviour is one request against one store.
books(a, s, l) ==
  /\ pc = "idle"
  /\ LET built == _build_sql_query_and_values(a, s, l)
     IN  /\ query' = built.query
         /\ values' = built.values
  /\ author_ids' = a /\ search' = s /\ limit' = l
  /\ fetch_calls' = 1
  /\ fetch_error' = "none"
  /\ book_records' = << >>
  /\ returned' = FALSE
  /\ result' = << >>
  /\ raised' = "none"
  /\ pc' = "awaiting"
  /\ UNCHANGED store

\* fetch_all returns rows; get_books maps them and the resolver returns the list
fetch_all_returns ==
  /\ pc = "awaiting"
  /\ LET out == Execute(query, values, store)
     IN  /\ out.ok
         /\ \E records \in out.rows :
              LET next == get_books_returns(records)
              IN  /\ book_records' = records
                  /\ pc' = next.pc
                  /\ returned' = next.returned
                  /\ result' = next.result
                  /\ raised' = next.raised
  /\ UNCHANGED << store, author_ids, search, limit, query, values, fetch_calls, fetch_error >>

\* the errors fetch_all may raise: the connection can fail at any time, the
\* statement fails when the store rejects it
FetchErrors(q, v, st) ==
  LET out == Execute(q, v, st)
  IN  { "connection" } \cup (IF out.ok THEN { } ELSE { out.error })

\* fetch_all raises; nothing in get_books or books catches
fetch_all_raises ==
  /\ pc = "awaiting"
  /\ \E err \in FetchErrors(query, values, store) :
       LET next == get_books_raises(err)
       IN  /\ fetch_error' = err
           /\ pc' = next.pc
           /\ returned' = next.returned
           /\ result' = next.result
           /\ raised' = next.raised
  /\ UNCHANGED << store, author_ids, search, limit, query, values, fetch_calls, book_records >>

Next ==
  \/ \E a \in AuthorIdsInputs, s \in SearchInputs, l \in LimitInputs : books(a, s, l)
  \/ fetch_all_returns
  \/ fetch_all_raises

Spec == Init /\ [][Next]_vars

\* ------------------------------------------------------------ vocabulary
IsNone(x) == x.t = "none"
IsEmpty(x) == x.t \in { "str", "list" } /\ x.v = << >>
NonEmpty(x) == x.t \in { "str", "list" } /\ x.v # << >>
Built == pc # "idle"
DictEq(d, e) == DOMAIN d = DOMAIN e /\ \A k \in DOMAIN d : PyEq(d[k], e[k])
AbsentIfEmpty(x) == IF IsEmpty(x) THEN None ELSE x
Count(seq, x) == Cardinality({ i \in 1..Len(seq) : seq[i] = x })
Positions(words, w) == { i \in 1..Len(words) : words[i] = w }

\* which of absent, empty and present an argument is
Shape(x) == IF IsNone(x) THEN "absent" ELSE IF IsEmpty(x) THEN "empty" ELSE "present"
Words(f) == { f[i] : i \in 1..Len(f) }
TemplateWords ==
  Words(_select_query) \cup Words(AuthorFilter) \cup Words(SearchFilter)
    \cup Words(LimitClause) \cup { "where", "and" }
\* the book rows a request with author_ids alone asks for, and their Books
WantedRows ==
  { i \in 1..Len(store.books) :
      /\ store.books[i].author_id \in DOMAIN store.authors
      /\ \E j \in 1..Len(author_ids.v) : author_ids.v[j] = store.books[i].author_id }
BookOfRow(i) ==
  Book(store.books[i].title, Author(store.authors[store.books[i].author_id]))

\* C1: with author_ids, search and limit all None the builder returns the base
\* join query unchanged, without a WHERE clause, and an empty mapping.
C1_NoArgumentsBaseQuery ==
  (Built /\ IsNone(author_ids) /\ IsNone(search) /\ IsNone(limit))
    => (query = _select_query /\ DOMAIN values = { })

\* C2: the builder's result for the arguments is the result for the arguments
\* with an empty author_ids and an empty search replaced by None.
C2_EmptyTreatedAsAbsent ==
  Built =>
    LET absent == _build_sql_query_and_values(AbsentIfEmpty(author_ids),
                                              AbsentIfEmpty(search), limit)
    IN  query = absent.query /\ DictEq(values, absent.values)

\* C3: with a non-empty author_ids and search and limit None, the WHERE clause
\* is the author membership test alone and the mapping binds author_ids alone.
C3_AuthorFilterOnly ==
  (Built /\ NonEmpty(author_ids) /\ IsNone(search) /\ IsNone(limit))
    => /\ query = _select_query \o << "where" >> \o AuthorFilter
       /\ DOMAIN values = { "author_ids" }
       /\ PyEq(values["author_ids"], author_ids)

\* C4: the keys of the parameter mapping are exactly the named placeholders
\* of the SQL text.
C4_KeysMatchPlaceholders ==
  Built => DOMAIN values = Placeholders(query)
C4_Witness ==
  Built /\ NonEmpty(author_ids) /\ NonEmpty(search) /\ ~IsNone(limit)
  /\ Placeholders(query) = { "author_ids", "search", "limit" }

\* C5: the LIMIT clause is appended and limit bound exactly when limit is not
\* None, whatever the filters; the clause is the last fragment; zero and
\* negative limits are bound like any other.
C5_LimitIffPresent ==
  Built =>
    /\ (~IsNone(limit)) <=> HasSuffix(query, LimitClause)
    /\ (~IsNone(limit)) <=> ("limit" \in DOMAIN values)
    /\ ~IsNone(limit) => PyEq(values["limit"], limit)
    /\ Positions(query, "limit") \subseteq { Len(query) - 1 }
    /\ Positions(query, ":limit") \subseteq { Len(query) }
C5_Witness ==
  Built /\ ~IsNone(limit) /\ limit.v <= 0 /\ Positions(query, "where") # { }
  /\ HasSuffix(query, LimitClause) /\ values["limit"].v = limit.v

\* C6: with a non-empty search the text is the base join, one WHERE, the
\* author condition (only for a non-empty author_ids) and the title condition
\* joined by "and" in that order, then the LIMIT clause if any; search is bound
\* to the raw term.
C6_SearchWhereClause ==
  (Built /\ NonEmpty(search)) =>
    /\ query = _select_query \o << "where" >>
                 \o (IF NonEmpty(author_ids) THEN AuthorFilter \o << "and" >> ELSE << >>)
                 \o SearchFilter
                 \o (IF IsNone(limit) THEN << >> ELSE LimitClause)
    /\ Cardinality(Positions(query, "where")) = 1
    /\ PyEq(values["search"], search)
C6_Witness ==
  Built /\ NonEmpty(search) /\ NonEmpty(author_ids) /\ ~IsNone(limit)
  /\ Positions(query, "and") # { }

\* C7: the SQL text depends only on which arguments are present and non-empty:
\* any other arguments of the same shape give the same text, and every word
\* of the text is a word of the fixed fragments.
C7_TextIndependentOfValues ==
  Built =>
    /\ \A a \in AuthorIdsInputs, s \in SearchInputs, l \in LimitInputs :
         (Shape(a) = Shape(author_ids) /\ Shape(s) = Shape(search)
            /\ Shape(l) = Shape(limit))
           => _build_sql_query_and_values(a, s, l).query = query
    /\ Words(query) \subseteq TemplateWords
C7_Witness ==
  Built /\ NonEmpty(author_ids) /\ NonEmpty(search) /\ ~IsNone(limit) /\ limit.v = MaxLimit
  /\ Len(author_ids.v) = MaxIdsLen

\* C8: with a non-empty author_ids and search and limit None, get_books
\* returns one Book for every book row whose author_id is in author_ids and
\* has an author row, and no other Book.
C8_AuthorFilterReturnsBooks ==
  (pc = "done" /\ NonEmpty(author_ids) /\ IsNone(search) /\ IsNone(limit)) =>
    /\ Len(result) = Cardinality(WantedRows)
    /\ \A i \in WantedRows :
         Count(result, BookOfRow(i))
           = Cardinality({ j \in WantedRows : BookOfRow(j) = BookOfRow(i) })

\* C9: the returned list has one Book per record fetch_all returned, in the
\* same order, the i-th Book carrying the i-th record's title and author name.
C9_OneBookPerRecordInOrder ==
  pc = "done" =>
    /\ returned
    /\ Len(result) = Len(book_records)
    /\ \A i \in 1..Len(book_records) :
         /\ result[i].title = book_records[i].book_title
         /\ result[i].author.name = book_records[i].author_name
C9_Witness ==
  pc = "done" /\ Len(book_records) = 3
  /\ book_records[1] = book_records[2] /\ book_records[3] # book_records[1]
  /\ Len(result) = 3

\* C10: when fetch_all raises, the request ends in failure with that error
\* handed to the caller, after one fetch_all call and without a list of Books.
C10_FetchFailurePropagates ==
  fetch_error # "none" =>
    /\ pc = "failed"
    /\ raised = fetch_error
    /\ fetch_calls = 1
    /\ ~returned
C10_Witness ==
  pc = "failed" /\ fetch_error = "negative_limit" /\ raised = "negative_limit"

====
